---- MODULE Spec2Model ----
(***************************************************************************)
(* Model of the two command-line programs of the repository:               *)
(*   day-01/rs/src/main.rs  two-column distance aggregator (i64)           *)
(*   day-02/rs/src/main.rs  report validator, plain and dampened (i32)     *)
(* Machine integers keep their width: an i32 is a TLC integer in           *)
(* I32Min..I32Max whose differences are computed exactly on 16-bit limbs;  *)
(* an i64 is a triple of 22-bit limbs.  Arithmetic that overflows panics   *)
(* when the build has overflow checks and wraps when it has not.           *)
(***************************************************************************)
EXTENDS Integers, Sequences, FiniteSets

VARIABLES
    overflow_checks,  \* build profile: TRUE = overflow checks (dev), FALSE = wrapping (release)
    numbers,          \* day-02: the slice handed to a validator call
    call,             \* day-02: which validator was called on `numbers`
    ret,              \* day-02: what that call produced
    pc,               \* where main() is: start, parse, ..., done, or how it ended
    input,            \* the input file: a sequence of lines, each a sequence of bytes
    nread,            \* lines of the input file the reader has handed out
    sequences,        \* day-02: the reports parsed so far
    pos,              \* day-02: reports already consumed by `for sequence in &sequences`
    metrics,          \* day-02: total_sequences, part1_valid_count, part2_valid_count
    left_numbers,     \* day-01: first-column values (i64)
    right_numbers,    \* day-01: second-column values (i64)
    calc_i,           \* day-01: `i` of the distance loop
    total,            \* day-01: the running total (i64)
    stdout            \* the result lines printed so far

validatorVars == <<numbers, call, ret>>
readerVars == <<input, nread>>
day2Vars == <<sequences, pos, metrics>>
day1Vars == <<left_numbers, right_numbers, calc_i, total>>

vars == <<overflow_checks, validatorVars, pc, readerVars, day2Vars, day1Vars, stdout>>

(***************************************************************************)
(* Bounds of the model.                                                    *)
(***************************************************************************)
MaxLen == 4       \* longest slice handed to a validator call
MaxVal == 4       \* small element values are 0..MaxVal
D2MaxLines == 1   \* lines of an enumerated day-02 input file
D1MaxLines == 2   \* lines of an enumerated day-01 input file
MaxLineLen == 3   \* bytes of an enumerated input line

(***************************************************************************)
(* i32                                                                     *)
(***************************************************************************)
I32Max == 2147483647
I32Min == (-2147483647) - 1
Limb16 == 65536
Half16 == 32768

Hi16(a) == a \div Limb16
Lo16(a) == a % Limb16

\* The exact difference a - b of two i32 values as <<hi, lo>>, value hi*2^16 + lo.
ExactSub32(a, b) ==
    LET l == Lo16(a) - Lo16(b)
        h == Hi16(a) - Hi16(b)
    IN  IF l < 0 THEN <<h - 1, l + Limb16>> ELSE <<h, l>>

\* `a - b` on i32: whether it overflows, and the two's-complement result.
Sub32(a, b) ==
    LET d == ExactSub32(a, b)
        wh == ((d[1] + Half16) % Limb16) - Half16
    IN  [overflow |-> (d[1] < -Half16) \/ (d[1] >= Half16),
         value    |-> wh * Limb16 + d[2]]

\* `a.abs()` on i32: i32::MIN has no positive counterpart.
Abs32(a) ==
    [overflow |-> a = I32Min,
     value    |-> IF a = I32Min THEN I32Min ELSE IF a < 0 THEN -a ELSE a]

(***************************************************************************)
(* day-02: validate_sequence                                               *)
(***************************************************************************)
\* The closure of `.windows(2).skip(1).all(..)`: pairs (s[i], s[i+1]) for
\* i >= 2 (1-based), left to right, stopping at the first pair that fails.
RECURSIVE AllPairs(_, _, _, _)
AllPairs(s, i, should_increase, checks) ==
    IF i >= Len(s) THEN "Valid"
    ELSE LET diff == Sub32(s[i + 1], s[i])
         IN  IF diff.overflow /\ checks THEN "Panic"
             ELSE IF (IF should_increase
                      THEN diff.value > 0 /\ diff.value <= 3
                      ELSE diff.value < 0 /\ diff.value >= -3)
                  THEN AllPairs(s, i + 1, should_increase, checks)
                  ELSE "Invalid"

validate_sequence(s, checks) ==
    IF Len(s) < 2 THEN "Valid"
    ELSE LET first_diff == Sub32(s[2], s[1])
         IN  IF first_diff.overflow /\ checks THEN "Panic"
             ELSE IF first_diff.value = 0 THEN "Invalid"
             ELSE LET a == Abs32(first_diff.value)
                  IN  IF a.overflow /\ checks THEN "Panic"
                      ELSE IF a.value > 3 THEN "Invalid"
                      ELSE AllPairs(s, 2, first_diff.value > 0, checks)

(***************************************************************************)
(* day-02: validate_sequence_with_dampener                                 *)
(***************************************************************************)
\* temp_sequence after clear() and extend(.. filter(i != skip_idx) ..)
RemoveAt(s, skip_idx) ==
    [k \in 1..(Len(s) - 1) |-> IF k < skip_idx THEN s[k] ELSE s[k + 1]]

RECURSIVE DampenerLoop(_, _, _)
DampenerLoop(s, skip_idx, checks) ==
    IF skip_idx > Len(s) THEN "Invalid"
    ELSE LET r == validate_sequence(RemoveAt(s, skip_idx), checks)
         IN  IF r = "Valid" THEN "Valid"
             ELSE IF r = "Panic" THEN "Panic"
             ELSE DampenerLoop(s, skip_idx + 1, checks)

\* Vec::with_capacity(numbers.len() - 1): on an empty slice the usize
\* subtraction panics with overflow checks and otherwise wraps to usize::MAX,
\* for which with_capacity panics with "capacity overflow".
validate_sequence_with_dampener(s, checks) ==
    IF Len(s) = 0 THEN "Panic"
    ELSE DampenerLoop(s, 1, checks)

\* 0i64 in the limb representation defined below
Zero64 == <<0, 0, 0>>

\* Metrics::default()
NoMetrics == [total_sequences |-> 0, part1_valid_count |-> 0, part2_valid_count |-> 0]

(***************************************************************************)
(* Specification of single validator calls.                                *)
(***************************************************************************)
SmallVals == 0..MaxVal
EdgeVals == {I32Min, I32Min + 1, I32Max}
Vals == SmallVals \cup EdgeVals

SeqsUpTo(S, n) == UNION {[1..k -> S] : k \in 0..n}

InitValidator ==
    /\ overflow_checks \in BOOLEAN
    /\ numbers \in SeqsUpTo(Vals, MaxLen)
    /\ call = "none"
    /\ ret = "none"
    /\ pc = "idle"
    /\ input = <<>>
    /\ nread = 0
    /\ sequences = <<>>
    /\ pos = 0
    /\ metrics = NoMetrics
    /\ left_numbers = <<>>
    /\ right_numbers = <<>>
    /\ calc_i = 0
    /\ total = Zero64
    /\ stdout = <<>>

CallValidateSequence ==
    /\ call = "none"
    /\ call' = "validate_sequence"
    /\ ret' = validate_sequence(numbers, overflow_checks)
    /\ UNCHANGED <<overflow_checks, numbers, pc, readerVars, day2Vars, day1Vars, stdout>>

CallDampener ==
    /\ call = "none"
    /\ call' = "validate_sequence_with_dampener"
    /\ ret' = validate_sequence_with_dampener(numbers, overflow_checks)
    /\ UNCHANGED <<overflow_checks, numbers, pc, readerVars, day2Vars, day1Vars, stdout>>

NextValidator == CallValidateSequence \/ CallDampener

SpecValidator == InitValidator /\ [][NextValidator]_vars

(***************************************************************************)
(* str::parse::<i32>(): optional sign, at least one digit, decimal digits  *)
(* only, accumulated with checked multiplication and addition.             *)
(***************************************************************************)
Digits == <<"0", "1", "2", "3", "4", "5", "6", "7", "8", "9">>
IsDigit(c) == \E d \in 1..10 : Digits[d] = c
DigitVal(c) == (CHOOSE d \in 1..10 : Digits[d] = c) - 1

ParseErr == [ok |-> FALSE, value |-> 0]

RECURSIVE AccI32(_, _, _, _)
AccI32(tok, k, acc, negative) ==
    IF k > Len(tok) THEN [ok |-> TRUE, value |-> acc]
    ELSE IF ~IsDigit(tok[k]) THEN ParseErr
    ELSE LET d == DigitVal(tok[k])
         IN  IF negative
             THEN IF acc < -(I32Max \div 10) THEN ParseErr
                  ELSE IF acc * 10 < I32Min + d THEN ParseErr
                  ELSE AccI32(tok, k + 1, acc * 10 - d, negative)
             ELSE IF acc > I32Max \div 10 THEN ParseErr
                  ELSE IF acc * 10 > I32Max - d THEN ParseErr
                  ELSE AccI32(tok, k + 1, acc * 10 + d, negative)

ParseI32(tok) ==
    IF Len(tok) = 0 THEN ParseErr
    ELSE IF tok[1] \in {"+", "-"}
         THEN IF Len(tok) = 1 THEN ParseErr
              ELSE AccI32(Tail(tok), 1, 0, tok[1] = "-")
         ELSE AccI32(tok, 1, 0, FALSE)

(***************************************************************************)
(* day-02 main(): the per-line tokenizer.                                  *)
(* unwrap_unchecked() on a failed parse is undefined behaviour: the run    *)
(* either dies there or goes on with some i32 in place of the number.      *)
(***************************************************************************)
UBVals == {0}

\* `for i in 0..bytes.len()` from index i (0-based) on, with the values of
\* `start` and `numbers`; the set of ways the loop can end.
RECURSIVE TokenLoop(_, _, _, _)
TokenLoop(bytes, i, start, nums) ==
    IF i >= Len(bytes) THEN {[crashed |-> FALSE, numbers |-> nums]}
    ELSE IF bytes[i + 1] = " " \/ i = Len(bytes) - 1
    THEN LET end == IF i = Len(bytes) - 1 THEN i + 1 ELSE i
             num == ParseI32(SubSeq(bytes, start + 1, end))
         IN  IF num.ok
             THEN TokenLoop(bytes, i + 1, i + 1, Append(nums, num.value))
             ELSE {[crashed |-> TRUE, numbers |-> nums]}
                  \cup UNION {TokenLoop(bytes, i + 1, i + 1, Append(nums, v)) : v \in UBVals}
    ELSE TokenLoop(bytes, i + 1, start, nums)

ParseReport(bytes) == TokenLoop(bytes, 0, 0, <<>>)

(***************************************************************************)
(* day-02 input: lines as BufRead::lines() yields them (no line ending).   *)
(***************************************************************************)
D2Alphabet == {"1", "4", " "}

SampleReports ==
    << <<7, 6, 4, 2, 1>>, <<1, 2, 7, 8, 9>>, <<9, 7, 6, 2, 1>>,
       <<1, 3, 2, 4, 5>>, <<8, 6, 4, 4, 1>>, <<1, 3, 6, 7, 9>> >>

SampleLines ==
    << <<"7", " ", "6", " ", "4", " ", "2", " ", "1">>,
       <<"1", " ", "2", " ", "7", " ", "8", " ", "9">>,
       <<"9", " ", "7", " ", "6", " ", "2", " ", "1">>,
       <<"1", " ", "3", " ", "2", " ", "4", " ", "5">>,
       <<"8", " ", "6", " ", "4", " ", "4", " ", "1">>,
       <<"1", " ", "3", " ", "6", " ", "7", " ", "9">> >>

\* "2147483647 -2147483648"
EdgeLine ==
    <<"2", "1", "4", "7", "4", "8", "3", "6", "4", "7", " ",
      "-", "2", "1", "4", "7", "4", "8", "3", "6", "4", "8">>

\* "1<TAB>4"
TabLine == <<"1", "\t", "4">>

\* "x", "1 x 4", "-4 -1"
BadLines == { <<"x">>, <<"1", " ", "x", " ", "4">> }
SignedLine == <<"-", "4", " ", "-", "1">>

D2Lines ==
    SeqsUpTo(D2Alphabet, MaxLineLen) \cup {EdgeLine, TabLine, SignedLine} \cup BadLines

D2Files == SeqsUpTo(D2Lines, D2MaxLines) \cup {SampleLines}

(***************************************************************************)
(* day-02 main()                                                           *)
(***************************************************************************)
InitDay2 ==
    /\ overflow_checks \in BOOLEAN
    /\ numbers = <<>>
    /\ call = "none"
    /\ ret = "none"
    /\ pc = "start"
    /\ input \in D2Files
    /\ nread = 0
    /\ sequences = <<>>
    /\ pos = 0
    /\ metrics = NoMetrics
    /\ left_numbers = <<>>
    /\ right_numbers = <<>>
    /\ calc_i = 0
    /\ total = Zero64
    /\ stdout = <<>>

\* File::open("./puzzle_input.txt")?
D2Open ==
    /\ pc = "start"
    /\ pc' = "parse"
    /\ UNCHANGED <<overflow_checks, validatorVars, readerVars, day2Vars, day1Vars, stdout>>

D2OpenFails ==
    /\ pc = "start"
    /\ pc' = "io_error"
    /\ UNCHANGED <<overflow_checks, validatorVars, readerVars, day2Vars, day1Vars, stdout>>

\* One iteration of `for line in reader.lines()`: tokenize the line and push
\* the report.
D2ReadLine ==
    /\ pc = "parse"
    /\ nread < Len(input)
    /\ nread' = nread + 1
    /\ \E out \in ParseReport(input[nread + 1]) :
          IF out.crashed
          THEN pc' = "ub_crash" /\ UNCHANGED sequences
          ELSE sequences' = Append(sequences, out.numbers) /\ UNCHANGED pc
    /\ UNCHANGED <<overflow_checks, validatorVars, input, pos, metrics, day1Vars, stdout>>

\* `let line = line?;` on a read error
D2ReadFails ==
    /\ pc = "parse"
    /\ nread < Len(input)
    /\ pc' = "io_error"
    /\ UNCHANGED <<overflow_checks, validatorVars, readerVars, day2Vars, day1Vars, stdout>>

\* reader.lines() is exhausted: metrics.total_sequences = sequences.len()
D2EndOfInput ==
    /\ pc = "parse"
    /\ nread = Len(input)
    /\ pc' = "validate"
    /\ metrics' = [metrics EXCEPT !.total_sequences = Len(sequences)]
    /\ UNCHANGED <<overflow_checks, validatorVars, readerVars, sequences, pos, day1Vars, stdout>>

\* D2ValidateNext with the Part 2 increment of the Valid branch left out.
D2ValidateNext_ForgetsPart2 ==
    /\ pc = "validate"
    /\ pos < Len(sequences)
    /\ LET sequence == sequences[pos + 1]
           validation_result == validate_sequence(sequence, overflow_checks)
           dampened == validate_sequence_with_dampener(sequence, overflow_checks)
       IN  IF validation_result = "Panic"
           THEN pc' = "panicked" /\ UNCHANGED <<pos, metrics>>
           ELSE IF validation_result = "Valid"
           THEN /\ metrics' = [metrics EXCEPT !.part1_valid_count = @ + 1]
                /\ pos' = pos + 1
                /\ UNCHANGED pc
           ELSE IF dampened = "Panic"
           THEN pc' = "panicked" /\ UNCHANGED <<pos, metrics>>
           ELSE IF dampened = "Valid"
           THEN /\ metrics' = [metrics EXCEPT !.part2_valid_count = @ + 1]
                /\ pos' = pos + 1
                /\ UNCHANGED pc
           ELSE /\ pos' = pos + 1
                /\ UNCHANGED <<pc, metrics>>
    /\ UNCHANGED <<overflow_checks, validatorVars, readerVars, sequences, day1Vars, stdout>>

\* D2ValidateNext with a dampened report counted for Part 1 as well.
D2ValidateNext_DampenedCountsForPart1 ==
    /\ pc = "validate"
    /\ pos < Len(sequences)
    /\ LET sequence == sequences[pos + 1]
           validation_result == validate_sequence(sequence, overflow_checks)
           dampened == validate_sequence_with_dampener(sequence, overflow_checks)
       IN  IF validation_result = "Panic"
           THEN pc' = "panicked" /\ UNCHANGED <<pos, metrics>>
           ELSE IF validation_result = "Valid"
           THEN /\ metrics' = [metrics EXCEPT !.part1_valid_count = @ + 1,
                                              !.part2_valid_count = @ + 1]
                /\ pos' = pos + 1
                /\ UNCHANGED pc
           ELSE IF dampened = "Panic"
           THEN pc' = "panicked" /\ UNCHANGED <<pos, metrics>>
           ELSE IF dampened = "Valid"
           THEN /\ metrics' = [metrics EXCEPT !.part1_valid_count = @ + 1,
                                              !.part2_valid_count = @ + 1]
                /\ pos' = pos + 1
                /\ UNCHANGED pc
           ELSE /\ pos' = pos + 1
                /\ UNCHANGED <<pc, metrics>>
    /\ UNCHANGED <<overflow_checks, validatorVars, readerVars, sequences, day1Vars, stdout>>

\* One iteration of `for sequence in &sequences`.
D2ValidateNext ==
    /\ pc = "validate"
    /\ pos < Len(sequences)
    /\ LET sequence == sequences[pos + 1]
           validation_result == validate_sequence(sequence, overflow_checks)
           dampened == validate_sequence_with_dampener(sequence, overflow_checks)
       IN  IF validation_result = "Panic"
           THEN pc' = "panicked" /\ UNCHANGED <<pos, metrics>>
           ELSE IF validation_result = "Valid"
           THEN /\ metrics' = [metrics EXCEPT !.part1_valid_count = @ + 1,
                                              !.part2_valid_count = @ + 1]
                /\ pos' = pos + 1
                /\ UNCHANGED pc
           ELSE IF dampened = "Panic"
           THEN pc' = "panicked" /\ UNCHANGED <<pos, metrics>>
           ELSE IF dampened = "Valid"
           THEN /\ metrics' = [metrics EXCEPT !.part2_valid_count = @ + 1]
                /\ pos' = pos + 1
                /\ UNCHANGED pc
           ELSE /\ pos' = pos + 1
                /\ UNCHANGED <<pc, metrics>>
    /\ UNCHANGED <<overflow_checks, validatorVars, readerVars, sequences, day1Vars, stdout>>

\* The loop is over: print the two counts (the timing lines are not modelled).
D2Report ==
    /\ pc = "validate"
    /\ pos = Len(sequences)
    /\ stdout' = stdout \o <<[label |-> "Part 1", value |-> metrics.part1_valid_count],
                            [label |-> "Part 2", value |-> metrics.part2_valid_count]>>
    /\ pc' = "done"
    /\ UNCHANGED <<overflow_checks, validatorVars, readerVars, day2Vars, day1Vars>>

NextDay2 ==
    \/ D2Open
    \/ D2OpenFails
    \/ D2ReadLine
    \/ D2ReadFails
    \/ D2EndOfInput
    \/ D2ValidateNext
    \/ D2Report

SpecDay2 == InitDay2 /\ [][NextDay2]_vars

(***************************************************************************)
(* i64: a triple <<h, m, l>> of 22-bit limbs, value h*2^44 + m*2^22 + l    *)
(* with m, l in 0..2^22-1.  An i64 has h in -2^19..2^19-1; an exact        *)
(* (unbounded) integer may have any h.                                     *)
(***************************************************************************)
Limb22 == 4194304
Half19 == 524288

Norm(h, m, l) ==
    LET m2 == m + (l \div Limb22)
    IN  <<h + (m2 \div Limb22), m2 % Limb22, l % Limb22>>

ExactAdd(a, b) == Norm(a[1] + b[1], a[2] + b[2], a[3] + b[3])
ExactSub(a, b) == Norm(a[1] - b[1], a[2] - b[2], a[3] - b[3])
ExactNeg(a) == Norm(-a[1], -a[2], -a[3])
ExactAbs(a) == IF a[1] < 0 THEN ExactNeg(a) ELSE a

Less(a, b) ==
    \/ a[1] < b[1]
    \/ a[1] = b[1] /\ a[2] < b[2]
    \/ a[1] = b[1] /\ a[2] = b[2] /\ a[3] < b[3]

I64Min == <<-Half19, 0, 0>>
I64Max == <<Half19 - 1, Limb22 - 1, Limb22 - 1>>

FitsI64(a) == a[1] >= -Half19 /\ a[1] < Half19
Wrap64(a) == <<((a[1] + Half19) % (2 * Half19)) - Half19, a[2], a[3]>>

\* `a - b`, `a + b` and `a.abs()` on i64: whether the operation overflows, and
\* the two's-complement result.
Sub64(a, b) ==
    LET d == ExactSub(a, b)
    IN  [overflow |-> ~FitsI64(d), value |-> Wrap64(d)]

Add64(a, b) ==
    LET d == ExactAdd(a, b)
    IN  [overflow |-> ~FitsI64(d), value |-> Wrap64(d)]

Abs64(a) ==
    [overflow |-> a = I64Min, value |-> Wrap64(ExactAbs(a))]

\* str::parse::<i64>(): as for i32, on 64 bits.
ParseErr64 == [ok |-> FALSE, value |-> Zero64]

RECURSIVE AccI64(_, _, _, _)
AccI64(tok, k, acc, negative) ==
    IF k > Len(tok) THEN [ok |-> TRUE, value |-> acc]
    ELSE IF ~IsDigit(tok[k]) THEN ParseErr64
    ELSE LET d == DigitVal(tok[k])
             next == Norm(10 * acc[1], 10 * acc[2],
                          10 * acc[3] + (IF negative THEN -d ELSE d))
         IN  IF ~FitsI64(next) THEN ParseErr64
             ELSE AccI64(tok, k + 1, next, negative)

ParseI64(tok) ==
    IF Len(tok) = 0 THEN ParseErr64
    ELSE IF tok[1] \in {"+", "-"}
         THEN IF Len(tok) = 1 THEN ParseErr64
              ELSE AccI64(Tail(tok), 1, Zero64, tok[1] = "-")
         ELSE AccI64(tok, 1, Zero64, FALSE)

\* slice::sort_unstable() on i64: the ascending arrangement.
RECURSIVE InsertSorted(_, _)
InsertSorted(s, x) ==
    IF s = <<>> THEN <<x>>
    ELSE IF Less(x, Head(s)) THEN <<x>> \o s
    ELSE <<Head(s)>> \o InsertSorted(Tail(s), x)

\* SortUnstable that leaves the vector as it is.
SortUnstable_Unsorted(s) == s

RECURSIVE SortUnstable(_)
SortUnstable(s) ==
    IF s = <<>> THEN <<>>
    ELSE InsertSorted(SortUnstable(SubSeq(s, 1, Len(s) - 1)), s[Len(s)])

(***************************************************************************)
(* day-01 main(): the per-line scanner.                                    *)
(***************************************************************************)
\* u8::is_ascii_whitespace
AsciiWhitespace == {" ", "\t", "\n", "\f", "\r"}

\* `while i < bytes.len() && bytes[i].is_ascii_whitespace() { i += 1 }`
RECURSIVE SkipWhitespace(_, _)
SkipWhitespace(bytes, k) ==
    IF k < Len(bytes) /\ bytes[k + 1] \in AsciiWhitespace
    THEN SkipWhitespace(bytes, k + 1) ELSE k

\* `while i < bytes.len() && !bytes[i].is_ascii_whitespace() { push; i += 1 }`
RECURSIVE SkipNumber(_, _)
SkipNumber(bytes, k) ==
    IF k < Len(bytes) /\ bytes[k + 1] \notin AsciiWhitespace
    THEN SkipNumber(bytes, k + 1) ELSE k

\* What one pass of the loop body finds in a line: the two number buffers.
ScanLine(bytes) ==
    LET i1 == SkipWhitespace(bytes, 0)
        i2 == SkipNumber(bytes, i1)
        i3 == SkipWhitespace(bytes, i2)
        i4 == SkipNumber(bytes, i3)
    IN  [first |-> SubSeq(bytes, i1 + 1, i2), second |-> SubSeq(bytes, i3 + 1, i4)]

(***************************************************************************)
(* day-01 input: lines as read_line() yields them (line ending included).  *)
(***************************************************************************)
\* "9223372036854775807", "-9223372036854775808", "9223372036854775808"
I64MaxText ==
    <<"9", "2", "2", "3", "3", "7", "2", "0", "3", "6",
      "8", "5", "4", "7", "7", "5", "8", "0", "7">>
I64MinText ==
    <<"-", "9", "2", "2", "3", "3", "7", "2", "0", "3", "6",
      "8", "5", "4", "7", "7", "5", "8", "0", "8">>
TooBigText ==
    <<"9", "2", "2", "3", "3", "7", "2", "0", "3", "6",
      "8", "5", "4", "7", "7", "5", "8", "0", "8">>

D1Numbers == { <<"0">>, <<"3">>, I64MaxText, I64MinText }

PairLine(a, b) == a \o <<" ">> \o b \o <<"\n">>
WideLine(a, b) == a \o <<" ", " ", " ">> \o b \o <<"\n">>

D1PairLines == {PairLine(a, b) : a, b \in D1Numbers}

D1OddLines ==
    { <<"\n">>,                                  \* blank
      <<"3", "\n">>,                             \* one number
      <<"3", " ", "0", " ", "x", "\n">>,         \* a third token
      <<"x", " ", "0", "\n">>,                   \* first token not a number
      <<"3", " ", "x", "\n">>,                   \* second token not a number
      PairLine(TooBigText, <<"0">>),             \* out of the i64 range
      <<" ", "3", "\t", " ", "0", "\r", "\n">>,  \* other whitespace
      <<"0", " ", "3">> }                        \* no line ending

D1Lines == D1PairLines \cup D1OddLines

D1SampleFile ==
    << WideLine(<<"3">>, <<"4">>), WideLine(<<"4">>, <<"3">>), WideLine(<<"2">>, <<"5">>),
       WideLine(<<"1">>, <<"3">>), WideLine(<<"3">>, <<"9">>), WideLine(<<"3">>, <<"3">>) >>

\* read_line() ends a line at "\n"; only the last line of a file can lack it.
Terminated(l) == l[Len(l)] = "\n"

D1Files ==
    {f \in SeqsUpTo(D1Lines, D1MaxLines) : \A k \in 1..(Len(f) - 1) : Terminated(f[k])}
        \cup {D1SampleFile}

(***************************************************************************)
(* day-01 main()                                                           *)
(***************************************************************************)
InitDay1 ==
    /\ overflow_checks \in BOOLEAN
    /\ numbers = <<>>
    /\ call = "none"
    /\ ret = "none"
    /\ pc = "start"
    /\ input \in D1Files
    /\ nread = 0
    /\ sequences = <<>>
    /\ pos = 0
    /\ metrics = NoMetrics
    /\ left_numbers = <<>>
    /\ right_numbers = <<>>
    /\ calc_i = 0
    /\ total = Zero64
    /\ stdout = <<>>

\* File::open("../puzzle_input.txt")?
D1Open ==
    /\ pc = "start"
    /\ pc' = "parse"
    /\ UNCHANGED <<overflow_checks, validatorVars, readerVars, day2Vars, day1Vars, stdout>>

D1OpenFails ==
    /\ pc = "start"
    /\ pc' = "io_error"
    /\ UNCHANGED <<overflow_checks, validatorVars, readerVars, day2Vars, day1Vars, stdout>>

\* One iteration of `while reader.read_line(&mut line)? > 0`.
D1ReadLine ==
    /\ pc = "parse"
    /\ nread < Len(input)
    /\ nread' = nread + 1
    /\ LET found == ScanLine(input[nread + 1])
           first == ParseI64(found.first)
           second == ParseI64(found.second)
       IN  IF found.first # <<>> /\ ~first.ok
           THEN pc' = "panicked" /\ UNCHANGED <<left_numbers, right_numbers>>
           ELSE /\ left_numbers' = IF found.first # <<>>
                                   THEN Append(left_numbers, first.value)
                                   ELSE left_numbers
                /\ IF found.second # <<>> /\ ~second.ok
                   THEN pc' = "panicked" /\ UNCHANGED right_numbers
                   ELSE /\ right_numbers' = IF found.second # <<>>
                                            THEN Append(right_numbers, second.value)
                                            ELSE right_numbers
                        /\ UNCHANGED pc
    /\ UNCHANGED <<overflow_checks, validatorVars, input, day2Vars, calc_i, total, stdout>>

\* read_line() returns an error
D1ReadFails ==
    /\ pc = "parse"
    /\ nread < Len(input)
    /\ pc' = "io_error"
    /\ UNCHANGED <<overflow_checks, validatorVars, readerVars, day2Vars, day1Vars, stdout>>

\* read_line() returns 0
D1EndOfInput ==
    /\ pc = "parse"
    /\ nread = Len(input)
    /\ pc' = "sort"
    /\ UNCHANGED <<overflow_checks, validatorVars, readerVars, day2Vars, day1Vars, stdout>>

\* left_numbers.sort_unstable(); right_numbers.sort_unstable(); let mut total = 0i64
D1Sort ==
    /\ pc = "sort"
    /\ left_numbers' = SortUnstable(left_numbers)
    /\ right_numbers' = SortUnstable(right_numbers)
    /\ total' = Zero64
    /\ calc_i' = 0
    /\ pc' = "calc"
    /\ UNCHANGED <<overflow_checks, validatorVars, readerVars, day2Vars, stdout>>

\* One iteration of `for i in 0..left_numbers.len()`:
\* total += (left_numbers[i] - right_numbers[i]).abs()
D1CalcNext ==
    /\ pc = "calc"
    /\ calc_i < Len(left_numbers)
    /\ IF calc_i >= Len(right_numbers)
       THEN pc' = "panicked" /\ UNCHANGED <<calc_i, total>>
       ELSE LET diff == Sub64(left_numbers[calc_i + 1], right_numbers[calc_i + 1])
                dist == Abs64(diff.value)
                sum == Add64(total, dist.value)
            IN  IF overflow_checks /\ (diff.overflow \/ dist.overflow \/ sum.overflow)
                THEN pc' = "panicked" /\ UNCHANGED <<calc_i, total>>
                ELSE total' = sum.value /\ calc_i' = calc_i + 1 /\ UNCHANGED pc
    /\ UNCHANGED <<overflow_checks, validatorVars, readerVars, day2Vars,
                   left_numbers, right_numbers, stdout>>

\* println!("Result: {}", total)
D1Report ==
    /\ pc = "calc"
    /\ calc_i = Len(left_numbers)
    /\ stdout' = Append(stdout, [label |-> "Result", value |-> total])
    /\ pc' = "done"
    /\ UNCHANGED <<overflow_checks, validatorVars, readerVars, day2Vars, day1Vars>>

NextDay1 ==
    \/ D1Open
    \/ D1OpenFails
    \/ D1ReadLine
    \/ D1ReadFails
    \/ D1EndOfInput
    \/ D1Sort
    \/ D1CalcNext
    \/ D1Report

SpecDay1 == InitDay1 /\ [][NextDay1]_vars

(***************************************************************************)
(* The safety rule of the reports, stated on mathematical integers without *)
(* any machine subtraction: b is 1, 2 or 3 above a.                        *)
(***************************************************************************)
StepUp(a, b) == \E k \in 1..3 : a <= I32Max - k /\ b = a + k
StepDown(a, b) == StepUp(b, a)

Monotonic13(s) ==
    \/ \A i \in 1..(Len(s) - 1) : StepUp(s[i], s[i + 1])
    \/ \A i \in 1..(Len(s) - 1) : StepDown(s[i], s[i + 1])

Reverse(s) == [k \in 1..Len(s) |-> s[Len(s) + 1 - k]]

Outcomes == {"Valid", "Invalid"}

\* C1: validate_sequence(s) returns Valid exactly when s is strictly
\* increasing or strictly decreasing with every adjacent step of magnitude
\* 1..3 (so length < 2 is Valid, a plateau is Invalid, 3 passes, 4 fails),
\* and Invalid otherwise.
C1_ValidIffMonotonic13 ==
    call = "validate_sequence" =>
        /\ ret \in Outcomes
        /\ (ret = "Valid") <=> Monotonic13(numbers)

\* C2: validate_sequence_with_dampener(s) returns Valid exactly when removing
\* some single index j leaves a sequence validate_sequence accepts, Invalid
\* when no removal does, and always one of the two, for every length
\* including 0 and 1.
C2_DampenerIffSomeRemoval ==
    call = "validate_sequence_with_dampener" =>
        /\ ret \in Outcomes
        /\ (ret = "Valid") <=>
               \E j \in 1..Len(numbers) :
                   validate_sequence(RemoveAt(numbers, j), overflow_checks) = "Valid"

\* C8: validate_sequence gives the same outcome on a sequence and on its
\* reversal.
C8_ReversalInvariant ==
    call = "validate_sequence" =>
        ret = validate_sequence(Reverse(numbers), overflow_checks)

\* validate_sequence gets as far as the pair (s[i], s[i+1]) exactly when the
\* pairs before it passed.
PairEvaluated(s, i, checks) == validate_sequence(SubSeq(s, 1, i), checks) = "Valid"

\* C10: over the whole i32 range every difference validate_sequence computes
\* (and the absolute value of the first) is the true mathematical value, no
\* overflow or wrap-around, so the outcome follows the [1,3]-step rule; in
\* particular [2147483647, -2147483648] is Invalid.
C10_DifferencesExact ==
    call = "validate_sequence" =>
        /\ \A i \in 1..(Len(numbers) - 1) :
               PairEvaluated(numbers, i, overflow_checks) =>
                   LET d == Sub32(numbers[i + 1], numbers[i])
                   IN  /\ ~d.overflow
                       /\ (i = 1 /\ d.value # 0) => ~Abs32(d.value).overflow
        /\ (numbers = <<I32Max, I32Min>> => ret = "Invalid")

(***************************************************************************)
(* day-02 main(): counting.                                                *)
(***************************************************************************)
D2LoopOver == pc = "done" \/ (pc = "validate" /\ pos = Len(sequences))

PlainValid(k) == validate_sequence(sequences[k], overflow_checks) = "Valid"
DampenedValid(k) ==
    /\ validate_sequence(sequences[k], overflow_checks) = "Invalid"
    /\ validate_sequence_with_dampener(sequences[k], overflow_checks) = "Valid"

\* C3: once the validation loop has consumed every parsed report,
\* part1_valid_count is the number of reports validate_sequence calls Valid
\* and part2_valid_count the number Valid plainly or, failing that, with the
\* dampener; the six sample reports give 2 and 4.
C3_CountsAfterLoop ==
    D2LoopOver =>
        /\ metrics.part1_valid_count =
               Cardinality({k \in 1..Len(sequences) : PlainValid(k)})
        /\ metrics.part2_valid_count =
               Cardinality({k \in 1..Len(sequences) : PlainValid(k) \/ DampenedValid(k)})
        /\ sequences = SampleReports =>
               metrics.part1_valid_count = 2 /\ metrics.part2_valid_count = 4

C3_Witness ==
    /\ pc = "done"
    /\ sequences = SampleReports
    /\ stdout = <<[label |-> "Part 1", value |-> 2], [label |-> "Part 2", value |-> 4]>>

\* C9: every report validate_sequence calls Valid is counted for Part 2 as
\* well, and in every state of the validation loop
\* part1_valid_count <= part2_valid_count <= reports processed so far.
C9_Part1LePart2LeProcessed ==
    /\ metrics.part1_valid_count <= metrics.part2_valid_count
    /\ metrics.part2_valid_count <= pos
    /\ Cardinality({k \in 1..pos : PlainValid(k)}) <= metrics.part2_valid_count

C9_Witness ==
    /\ pc = "validate"
    /\ pos = 4
    /\ metrics.part1_valid_count = 1
    /\ metrics.part2_valid_count = 2

(***************************************************************************)
(* day-02 main(): parsing, against tokenization by whitespace.             *)
(***************************************************************************)
Whitespace == {" ", "\t", "\n", "\r", "\f"}

\* The maximal runs of non-whitespace bytes of a line, left to right.
RECURSIVE Runs(_, _, _)
Runs(bytes, k, cur) ==
    IF k > Len(bytes) THEN (IF cur = <<>> THEN <<>> ELSE <<cur>>)
    ELSE IF bytes[k] \in Whitespace
         THEN (IF cur = <<>> THEN <<>> ELSE <<cur>>) \o Runs(bytes, k + 1, <<>>)
         ELSE Runs(bytes, k + 1, Append(cur, bytes[k]))

Tokens(bytes) == Runs(bytes, 1, <<>>)

\* Decimal text of an i32: an optional '-' and then digits only.
IsDecimalText(tok) ==
    LET body == IF Len(tok) > 0 /\ tok[1] = "-" THEN Tail(tok) ELSE tok
    IN  /\ Len(body) > 0
        /\ \A k \in 1..Len(body) : IsDigit(body[k])
        /\ ParseI32(tok).ok

AllDecimal(bytes) == \A k \in 1..Len(Tokens(bytes)) : IsDecimalText(Tokens(bytes)[k])

IntegersOf(bytes) == [k \in 1..Len(Tokens(bytes)) |-> ParseI32(Tokens(bytes)[k]).value]

D2LineConsumed == pc = "parse" /\ nread' = nread + 1
D2Line == input[nread + 1]

\* C6: a report line of decimal integers separated by runs of whitespace
\* (leading and trailing whitespace allowed) parses to exactly one integer per
\* maximal run of non-whitespace bytes, in order; no empty token, no extra
\* element.
C6_OneIntegerPerRun ==
    [][(D2LineConsumed /\ AllDecimal(D2Line)) =>
           (pc' = "parse" /\ sequences' = Append(sequences, IntegersOf(D2Line)))]_vars

\* C7: a token that is not decimal integer text is a fatal parse failure: the
\* run ends in an error state, nothing is appended for the token and no
\* result line is printed.
C7_BadTokenIsFatal ==
    [][(D2LineConsumed /\ ~AllDecimal(D2Line)) =>
           (pc' \in {"panicked", "ub_crash"} /\ sequences' = sequences /\ stdout' = <<>>)]_vars

(***************************************************************************)
(* day-01 main(), against the distance of the two sorted columns computed  *)
(* on exact integers.                                                      *)
(***************************************************************************)
IsDecimalText64(tok) ==
    LET body == IF Len(tok) > 0 /\ tok[1] = "-" THEN Tail(tok) ELSE tok
    IN  /\ Len(body) > 0
        /\ \A k \in 1..Len(body) : IsDigit(body[k])
        /\ ParseI64(tok).ok

\* Every line of the file holds exactly two integers.
TwoIntegerLines(file) ==
    \A k \in 1..Len(file) :
        /\ Len(Tokens(file[k])) = 2
        /\ IsDecimalText64(Tokens(file[k])[1])
        /\ IsDecimalText64(Tokens(file[k])[2])

RECURSIVE ColumnFrom(_, _, _)
ColumnFrom(file, c, k) ==
    IF k > Len(file) THEN <<>>
    ELSE <<ParseI64(Tokens(file[k])[c]).value>> \o ColumnFrom(file, c, k + 1)

Column(file, c) == ColumnFrom(file, c, 1)

\* The ascending arrangement of s: its k-th element is the value with fewer
\* than k elements below it and at least k elements not above it.
Below(s, v) == Cardinality({j \in 1..Len(s) : Less(s[j], v)})
NotAbove(s, v) == Cardinality({j \in 1..Len(s) : ~Less(v, s[j])})
RECURSIVE AscendingFrom(_, _)
AscendingFrom(s, k) ==
    IF k > Len(s) THEN <<>>
    ELSE <<CHOOSE v \in {s[j] : j \in 1..Len(s)} : Below(s, v) < k /\ k <= NotAbove(s, v)>>
             \o AscendingFrom(s, k + 1)

Ascending(s) == AscendingFrom(s, 1)

RECURSIVE SumOfDistances(_, _, _)
SumOfDistances(L, R, k) ==
    IF k > Len(L) THEN Zero64
    ELSE ExactAdd(ExactAbs(ExactSub(L[k], R[k])), SumOfDistances(L, R, k + 1))

ExpectedDistance(file) ==
    SumOfDistances(Ascending(Column(file, 1)), Ascending(Column(file, 2)), 1)

ResultLine(v) == <<[label |-> "Result", value |-> v]>>

\* C4 as stated: for every input whose lines each hold exactly two integers
\* the result is the sum over i of |L[i] - R[i]| for the ascending columns
\* L and R; the sample columns give 11.
C4_ResultIsDistance ==
    (pc = "done" /\ TwoIntegerLines(input)) =>
        /\ stdout = ResultLine(ExpectedDistance(input))
        /\ input = D1SampleFile => stdout = ResultLine(<<0, 0, 11>>)

D1Over == pc \in {"done", "panicked"}

\* C4 amended: the same whenever the integers fit in i64 and that sum is at
\* most i64::MAX, and then the run does not panic; when the sum is larger a
\* build with overflow checks never prints a result.
C4_ResultIsDistanceWhenRepresentable ==
    (D1Over /\ TwoIntegerLines(input)) =>
        LET expected == ExpectedDistance(input)
        IN  /\ FitsI64(expected) => (pc = "done" /\ stdout = ResultLine(expected))
            /\ (~FitsI64(expected) /\ overflow_checks) => pc # "done"
            /\ (pc = "done" /\ input = D1SampleFile) => stdout = ResultLine(<<0, 0, 11>>)

C4_Witness ==
    /\ pc = "done"
    /\ input = D1SampleFile
    /\ left_numbers = <<<<0, 0, 1>>, <<0, 0, 2>>, <<0, 0, 3>>, <<0, 0, 3>>, <<0, 0, 3>>, <<0, 0, 4>>>>
    /\ stdout = ResultLine(<<0, 0, 11>>)

\* C5: between lines of the parse loop and when the distance loop starts,
\* whatever lines were consumed, len(left_numbers) = len(right_numbers).
C5_ColumnsSameLength ==
    pc \in {"parse", "sort", "calc"} => Len(left_numbers) = Len(right_numbers)

====
